---- MODULE Spec2Model ----
(***************************************************************************)
(* Rule-execution engine of liferay-npm-bundler (steps/rules.js).          *)
(*                                                                         *)
(* One run of runRules(rootPkg, depPkgs): the packages that are not clean  *)
(* are handed to processPackage, which discovers the package's files and   *)
(* drives processFile over them in chunks; processFile runs the file's     *)
(* loader chain (runLoaders), writes the result (writeLoadersResult,       *)
(* writeRuleFile, stripSourceDir) and reports the file's log.              *)
(*                                                                         *)
(* Paths are sequences of segments ("src/f1" is <<"src","f1">>), all       *)
(* relative to project.dir.  A text (file content, error message) is a     *)
(* sequence of tokens, so that prefixing and appending are real            *)
(* operations on it.                                                       *)
(***************************************************************************)
EXTENDS Integers, Sequences, FiniteSets, TLC

\* ------------------------------------------------------------------ bounds

\* config.bundler.getMaxParallelFiles(): the configured chunk size
MaxParallelFiles == 2

\* number of files f1, f2, ... found under the root package's "src" directory
MaxSrcFiles == 2

\* longest loader chain configured for a file
MaxChain == 2

\* ------------------------------------------------------------------ values

\* the JavaScript values undefined and null, as texts no loader can produce
Undefined == <<"%undefined">>

Null == <<"%null">>

\* x === undefined
IsUndefined(x) == x = Undefined

\* x == undefined (loose equality: undefined or null)
IsNullish(x) == x \in {Undefined, Null}

Min(a, b) == IF a < b THEN a ELSE b

\* ------------------------------------------------------------------- paths

IsPrefix(p, s) == Len(p) <= Len(s) /\ SubSeq(s, 1, Len(p)) = p

Drop(s, n) == SubSeq(s, n + 1, Len(s))

RECURSIVE CommonLen(_, _)
\* number of leading segments two paths share
CommonLen(a, b) ==
    IF a = <<>> \/ b = <<>> \/ Head(a) # Head(b)
    THEN 0
    ELSE 1 + CommonLen(Tail(a), Tail(b))

RECURSIVE Normalize(_, _)
\* path.normalize: ".." removes the segment before it
Normalize(done, rest) ==
    IF rest = <<>> THEN done
    ELSE IF Head(rest) = ".." /\ done # <<>> /\ done[Len(done)] # ".."
         THEN Normalize(SubSeq(done, 1, Len(done) - 1), Tail(rest))
         ELSE Normalize(Append(done, Head(rest)), Tail(rest))

\* path.join(a, b)
PathJoin(a, b) == Normalize(<<>>, a \o b)

\* path.relative(from, to), both relative to project.dir
PathRelative(from, to) ==
    LET c == CommonLen(from, to)
    IN  [i \in 1..(Len(from) - c) |-> ".."] \o Drop(to, c)

\* ---------------------------------------------------------------- project

\* the package descriptors handed to runRules: the root package and one
\* dependency
PkgIds == <<"root", "dep1">>

Pkgs == {PkgIds[i] : i \in 1..Len(PkgIds)}

\* srcPkg.isRoot
IsRoot(p) == p = "root"

\* srcPkg.dir, relative to project.dir ("." for the root package)
PkgDir(p) == IF IsRoot(p) THEN <<>> ELSE <<"node_modules", p>>

\* project.sources, in configured order
Sources == << <<"lib">>, <<"src">> >>

FileNames == <<"f1", "f2", "f3", "f4">>

\* the files of the project directory, in the order file discovery lists them
ProjectTree ==
    << <<"README">>, <<"lib", "f1">> >>
    \o [i \in 1..MaxSrcFiles |-> <<"src", FileNames[i]>>]
    \o << <<"src", "lib", "f1">>,
          <<"node_modules", "dep1", "f1">>,
          <<"node_modules", "dep1", "lib", "f1">>,
          <<"node_modules", "dep1", "node_modules", "x", "f1">> >>

AllFiles == {ProjectTree[i] : i \in 1..Len(ProjectTree)}

\* sourceGlobs of processPackage: `${source}/**/*` per source for the root
\* package, '**/*' for a dependency
SourceGlobs(p) ==
    IF IsRoot(p) THEN Sources ELSE << <<>> >>

\* a file matches the package's globs: under the package directory, below one
\* of the positive globs and not below '!node_modules/**/*'
MatchesGlobs(p, f) ==
    /\ \E i \in 1..Len(SourceGlobs(p)) :
          LET dir == PkgDir(p) \o SourceGlobs(p)[i]
          IN  IsPrefix(dir, f) /\ Len(f) > Len(dir)
    /\ ~IsPrefix(PkgDir(p) \o <<"node_modules">>, f)

\* findFiles(project.dir, gl.prefix(`${project.dir}/${srcPkg.dir}/`, globs))
FindFiles(p) == SelectSeq(ProjectTree, LAMBDA f : MatchesGlobs(p, f))

\* getDestDir(srcPkg): the build directory for the root package, a directory
\* of its own below it for a dependency
GetDestDir(p) ==
    IF IsRoot(p) THEN <<"build">> ELSE <<"build", "node_modules", p>>

\* fs.readFileSync(path.join(project.dir, prjSrcFile), 'utf-8').toString():
\* every file holds a text that names it
ReadFile(f) == f

\* ---------------------------------------------------------------- loaders

\* what a loader's exec does:
\*   value        returns a new content
\*   promise      returns a promise that resolves to a new content
\*   none         returns undefined
\*   promiseNone  returns a promise that resolves to undefined
\*   null         returns null
\*   throw        throws
\*   reject       returns a promise that rejects
\*   artifact     sets extraArtifacts[`${filePath}.map`], returns undefined
\*   decline      sets extraArtifacts[`${filePath}.map`] to undefined
\*   noOutput     sets context.content to undefined, returns undefined
\*   manifest     sets extraArtifacts['manifest.json'], returns undefined
LoaderKinds ==
    {"value", "promise", "none", "promiseNone", "null", "throw", "reject",
     "artifact", "decline", "noOutput"}

\* a loader descriptor {use, exec, options}; the loader is named after what
\* its exec does
Loader(k) == [use |-> k, kind |-> k]

Loaders == {Loader(k) : k \in LoaderKinds}

\* the loader chains of length n
ChainsOfLen(n) == [1..n -> Loaders]

\* the new content a content-producing loader computes
Transform(use, content) ==
    IF IsNullish(content) THEN <<use>> ELSE Append(content, use)

\* the message of the error a failing loader raises
OriginalMessage(use) == <<"boom in", use>>

MapName(s) ==
    CASE s = "f1" -> "f1.map"
      [] s = "f2" -> "f2.map"
      [] s = "f3" -> "f3.map"
      [] s = "f4" -> "f4.map"
      [] OTHER -> "x.map"

\* `${filePath}.map`
MapPath(f) == [f EXCEPT ![Len(f)] = MapName(@)]

\* extraArtifacts[key] = val on an object that keeps insertion order
SetArtifact(arts, key, val) ==
    IF \E i \in 1..Len(arts) : arts[i].path = key
    THEN [i \in 1..Len(arts) |->
            IF arts[i].path = key THEN [path |-> key, content |-> val]
            ELSE arts[i]]
    ELSE Append(arts, [path |-> key, content |-> val])

\* loader.exec(context, loader.options): the context as the loader leaves it
\* and the outcome of the call ("return" and "throw" are synchronous,
\* "resolve" and "reject" are the fate of the promise it returned)
Exec(loader, ctx) ==
    CASE loader.kind = "value" ->
           [ctx |-> ctx,
            out |-> [kind |-> "return",
                     val |-> Transform(loader.use, ctx.content)]]
      [] loader.kind = "promise" ->
           [ctx |-> ctx,
            out |-> [kind |-> "resolve",
                     val |-> Transform(loader.use, ctx.content)]]
      [] loader.kind = "none" ->
           [ctx |-> ctx, out |-> [kind |-> "return", val |-> Undefined]]
      [] loader.kind = "promiseNone" ->
           [ctx |-> ctx, out |-> [kind |-> "resolve", val |-> Undefined]]
      [] loader.kind = "null" ->
           [ctx |-> ctx, out |-> [kind |-> "return", val |-> Null]]
      [] loader.kind = "throw" ->
           [ctx |-> ctx,
            out |-> [kind |-> "throw", val |-> OriginalMessage(loader.use)]]
      [] loader.kind = "reject" ->
           [ctx |-> ctx,
            out |-> [kind |-> "reject", val |-> OriginalMessage(loader.use)]]
      [] loader.kind = "artifact" ->
           [ctx |-> [ctx EXCEPT !.extraArtifacts =
                       SetArtifact(@, MapPath(ctx.filePath),
                                   Transform("map", ctx.content))],
            out |-> [kind |-> "return", val |-> Undefined]]
      [] loader.kind = "decline" ->
           [ctx |-> [ctx EXCEPT !.extraArtifacts =
                       SetArtifact(@, MapPath(ctx.filePath), Undefined)],
            out |-> [kind |-> "return", val |-> Undefined]]
      [] loader.kind = "manifest" ->
           [ctx |-> [ctx EXCEPT !.extraArtifacts =
                       SetArtifact(@, <<"manifest.json">>, <<"manifest">>)],
            out |-> [kind |-> "return", val |-> Undefined]]
      [] OTHER ->
           [ctx |-> [ctx EXCEPT !.content = Undefined],
            out |-> [kind |-> "return", val |-> Undefined]]

\* ------------------------------------------------------------------ state

VARIABLES
    clean,       \* srcPkg.clean of every package descriptor
    chain,       \* what project.rules.loadersForFile answers for every file
    unreadable,  \* the source files fs.readFileSync fails on
    unwritable,  \* the destination paths fs.writeFileSync fails on
    op,          \* per file: the processFile call made for it and its context
    runner,      \* per package: the runInChunks call made by processPackage
    rules,       \* the promise runRules returns
    disk,        \* the destination tree: path -> content
    writes,      \* per file: the fs.writeFileSync calls made for it, in order
    reports,     \* per file: the logs report.rulesRun was called with
    debugLog,    \* what runRules logs on success
    project,     \* the private fields of the Project object
    objects      \* the configuration objects in memory, by identity

vars ==
    <<clean, chain, unreadable, unwritable, op, runner, rules, disk, writes,
      reports, debugLog, project, objects>>

NoResult == [kind |-> "nothing", val |-> <<>>]

NoContext ==
    [content |-> Undefined, filePath |-> <<>>, extraArtifacts |-> <<>>,
     log |-> <<>>]

\* a file no processFile call was made for
IdleOp ==
    [pc |-> "idle", attempts |-> 0, loaders |-> <<>>, idx |-> 0,
     pending |-> NoResult, ctx |-> NoContext, err |-> <<>>, pkg |-> "none",
     failKind |-> "none", failedLoader |-> 0, invoked |-> <<>>]

\* a package processPackage was not called for
IdleRunner ==
    [active |-> FALSE, files |-> <<>>, chunkSize |-> 0, chunkIndex |-> 0,
     promise |-> "none", err |-> <<>>, failedChunk |-> 0]

\* the promise of the file's processFile call is settled
Settled(o) == o.pc \in {"done", "failed"}

\* processFile was called for the file and its promise is not settled
InFlight(o) == o.pc \in {"await", "loaded", "written"}

\* ------------------------------------------------------- the loader pipeline

\* project.rules.loadersForFile(path.join(project.dir, prjSrcFile))
LoadersForFile(f) == chain[f]

\* err.message = `Loader '${loader.use}' failed: ${err.message}`
Annotate(use, message) == <<"Loader '", use, "' failed: ">> \o message

\* the then-callback of runLoaders: a content other than undefined replaces
\* context.content
ApplyResultAlways(ctx, content) == [ctx EXCEPT !.content = content]

ApplyResult(ctx, content) ==
    IF ~IsUndefined(content) THEN [ctx EXCEPT !.content = content] ELSE ctx

\* runLoaders, with a catch that swallows the error instead of rethrowing it
RunLoadersSwallow(o, i) ==
    IF i > Len(o.loaders)
    THEN [o EXCEPT !.pc = "loaded", !.idx = 0]
    ELSE LET r == Exec(o.loaders[i], o.ctx)
         IN  [o EXCEPT !.pc = "await", !.idx = i, !.ctx = r.ctx,
                       !.pending = IF r.out.kind = "throw"
                                   THEN [kind |-> "return", val |-> Undefined]
                                   ELSE r.out,
                       !.invoked = Append(@, i)]

\* runLoaders resolving with what the context holds when a loader throws,
\* so that the writer runs on it
RunLoadersWriteOnThrow(o, i) ==
    IF i > Len(o.loaders)
    THEN [o EXCEPT !.pc = "loaded", !.idx = 0]
    ELSE LET loader == o.loaders[i]
             r == Exec(loader, o.ctx)
         IN  IF r.out.kind = "throw"
             THEN [o EXCEPT !.pc = "loaded", !.idx = 0, !.ctx = r.ctx,
                            !.err = Annotate(loader.use, r.out.val),
                            !.failKind = "throw", !.failedLoader = i,
                            !.invoked = Append(@, i)]
             ELSE [o EXCEPT !.pc = "await", !.idx = i, !.ctx = r.ctx,
                            !.pending = r.out,
                            !.invoked = Append(@, i)]

\* runLoaders calling the next loader of the chain too, without waiting for
\* the result of the one it has just called
RunLoadersEager(o, i) ==
    IF i > Len(o.loaders)
    THEN [o EXCEPT !.pc = "loaded", !.idx = 0]
    ELSE LET r == Exec(o.loaders[i], o.ctx)
         IN  IF i + 1 > Len(o.loaders)
             THEN [o EXCEPT !.pc = "await", !.idx = i, !.ctx = r.ctx,
                            !.pending = r.out,
                            !.invoked = Append(@, i)]
             ELSE LET s == Exec(o.loaders[i + 1], r.ctx)
                  IN  [o EXCEPT !.pc = "await", !.idx = i + 1, !.ctx = s.ctx,
                                !.pending = s.out,
                                !.invoked = Append(Append(@, i), i + 1)]

\* runLoaders(loaders, firstLoaderIndex, context), up to the point where it
\* returns: i is firstLoaderIndex + 1.  Past the end of the chain the promise
\* resolves with context.content; otherwise the loader is called, a throw is
\* rethrown annotated, and anything else is awaited
RunLoaders(o, i) ==
    IF i > Len(o.loaders)
    THEN [o EXCEPT !.pc = "loaded", !.idx = 0]
    ELSE LET loader == o.loaders[i]
             r == Exec(loader, o.ctx)
         IN  IF r.out.kind = "throw"
             THEN [o EXCEPT !.pc = "failed", !.idx = 0, !.ctx = r.ctx,
                            !.err = Annotate(loader.use, r.out.val),
                            !.failKind = "throw", !.failedLoader = i,
                            !.invoked = Append(@, i)]
             ELSE [o EXCEPT !.pc = "await", !.idx = i, !.ctx = r.ctx,
                            !.pending = r.out,
                            !.invoked = Append(@, i)]

\* Promise.resolve(result).then(content => ...): a rejection passes through
\* as it is, a value is applied and the rest of the chain runs
ResumeLoaders(o) ==
    IF o.pending.kind = "reject"
    THEN [o EXCEPT !.pc = "failed", !.idx = 0, !.pending = NoResult,
                   !.err = o.pending.val,
                   !.failKind = "reject", !.failedLoader = o.idx]
    ELSE RunLoaders([o EXCEPT !.ctx = ApplyResult(o.ctx, o.pending.val),
                              !.pending = NoResult],
                    o.idx + 1)

\* a context whose extraArtifacts is one object shared by the operations:
\* it starts with what an earlier file's loaders have put there
NewContextShared(f) ==
    [content |-> ReadFile(f), filePath |-> f,
     extraArtifacts |-> op[<<"lib", "f1">>].ctx.extraArtifacts,
     log |-> <<>>]

\* the context processFile creates
NewContext(f) ==
    [content |-> ReadFile(f), filePath |-> f, extraArtifacts |-> <<>>,
     log |-> <<>>]

\* processFile without the early return for an empty chain
ProcessFileNoGuard(f, o) ==
    LET started == [o EXCEPT !.attempts = @ + 1,
                             !.loaders = LoadersForFile(f)]
    IN  IF f \in unreadable
        THEN [started EXCEPT !.pc = "failed", !.err = <<"ENOENT">>,
                             !.failKind = "read"]
        ELSE RunLoaders([started EXCEPT !.ctx = NewContext(f)], 1)

\* processFile(srcPkg, destPkg, prjSrcFile), up to the point where it
\* returns: an empty chain resolves at once, a failing read throws, and
\* otherwise the first loader has been called
ProcessFile(f, o) ==
    LET started == [o EXCEPT !.attempts = @ + 1,
                             !.loaders = LoadersForFile(f)]
    IN  IF Len(started.loaders) = 0
        THEN [started EXCEPT !.pc = "done"]
        ELSE IF f \in unreadable
        THEN [started EXCEPT !.pc = "failed", !.err = <<"ENOENT">>,
                             !.failKind = "read"]
        ELSE RunLoaders([started EXCEPT !.ctx = NewContext(f)], 1)

\* ---------------------------------------------------------- the result writer

RECURSIVE StripFrom(_, _)
\* the loop of stripSourceDir from the i-th source on
StripFrom(i, pkgFile) ==
    IF i > Len(Sources) THEN pkgFile
    ELSE IF IsPrefix(Sources[i], pkgFile) /\ Len(pkgFile) > Len(Sources[i])
         THEN Drop(pkgFile, Len(Sources[i]))
         ELSE StripFrom(i + 1, pkgFile)

\* stripSourceDir going on to strip what is left after a source was removed
StripSourceDirRepeatedly(pkgFile) ==
    IF StripFrom(1, pkgFile) = pkgFile THEN pkgFile
    ELSE StripFrom(1, StripFrom(1, pkgFile))

\* stripSourceDir(pkgFile): the first configured source that prefixes the
\* path is removed from it
StripSourceDir(pkgFile) == StripFrom(1, pkgFile)

\* absFile of writeRuleFile(destPkg, pkgFile, content); destPkg is a clone of
\* srcPkg with dir: getDestDir(srcPkg)
AbsFile(p, pkgFile) ==
    PathJoin(GetDestDir(p),
             IF IsRoot(p) THEN StripSourceDir(pkgFile) ELSE pkgFile)

\* path.relative with its two arguments exchanged
PkgFileSwapped(p, prjFile) == PathRelative(prjFile, PkgDir(p))

\* path.relative(srcPkg.dir, path.join(project.dir, prjFile))
PkgFile(p, prjFile) == PathRelative(PkgDir(p), prjFile)

\* the writeRuleFile calls of a writeLoadersResult that tests the content
\* with !== undefined, and so writes a null content
PlannedWritesStrict(p, ctx) ==
    LET primary ==
            IF ~IsUndefined(ctx.content)
            THEN << [path |-> AbsFile(p, PkgFile(p, ctx.filePath)),
                     content |-> ctx.content, extra |-> FALSE,
                     key |-> ctx.filePath] >>
            ELSE <<>>
        kept == SelectSeq(ctx.extraArtifacts,
                          LAMBDA a : ~IsNullish(a.content))
    IN  primary \o
        [i \in 1..Len(kept) |->
            [path |-> AbsFile(p, PkgFile(p, kept[i].path)),
             content |-> kept[i].content, extra |-> TRUE,
             key |-> kept[i].path]]

\* the writeRuleFile calls of a writeLoadersResult that writes every entry
\* of extraArtifacts, the undefined ones too
PlannedWritesUnfiltered(p, ctx) ==
    LET primary ==
            IF ~IsNullish(ctx.content)
            THEN << [path |-> AbsFile(p, PkgFile(p, ctx.filePath)),
                     content |-> ctx.content, extra |-> FALSE,
                     key |-> ctx.filePath] >>
            ELSE <<>>
    IN  primary \o
        [i \in 1..Len(ctx.extraArtifacts) |->
            [path |-> AbsFile(p, PkgFile(p, ctx.extraArtifacts[i].path)),
             content |-> ctx.extraArtifacts[i].content, extra |-> TRUE,
             key |-> ctx.extraArtifacts[i].path]]

\* the writeRuleFile calls writeLoadersResult makes for a context, in order:
\* the primary output unless content is null or undefined, then every extra
\* artifact whose content is neither
PlannedWrites(p, ctx) ==
    LET primary ==
            IF ~IsNullish(ctx.content)
            THEN << [path |-> AbsFile(p, PkgFile(p, ctx.filePath)),
                     content |-> ctx.content, extra |-> FALSE,
                     key |-> ctx.filePath] >>
            ELSE <<>>
        kept == SelectSeq(ctx.extraArtifacts,
                          LAMBDA a : ~IsNullish(a.content))
    IN  primary \o
        [i \in 1..Len(kept) |->
            [path |-> AbsFile(p, PkgFile(p, kept[i].path)),
             content |-> kept[i].content, extra |-> TRUE,
             key |-> kept[i].path]]

RECURSIVE WriteAllRollback(_, _, _, _)
\* the planned writes carried out one after the other, and undone on the
\* file system when one of them fails
WriteAllRollback(f, plan, i, st) ==
    IF i > Len(plan) THEN st
    ELSE LET w == plan[i]
         IN  IF w.path \in unwritable
             THEN [st EXCEPT !.ok = FALSE, !.disk = disk]
             ELSE WriteAllRollback(f, plan, i + 1,
                    [st EXCEPT
                       !.disk = (w.path :> w.content) @@ @,
                       !.writes = Append(@, [path |-> w.path,
                                             content |-> w.content,
                                             extra |-> w.extra,
                                             key |-> w.key]),
                       !.log = IF w.extra
                               THEN Append(@, [tag |-> "liferay-npm-bundler",
                                               artifact |-> w.key])
                               ELSE @])

RECURSIVE WriteAll(_, _, _, _)
\* the planned writes carried out one after the other from the i-th on, up to
\* the first one fs.writeFileSync fails on; every extra artifact written is
\* logged with context.log.info
WriteAll(f, plan, i, st) ==
    IF i > Len(plan) THEN st
    ELSE LET w == plan[i]
         IN  IF w.path \in unwritable
             THEN [st EXCEPT !.ok = FALSE]
             ELSE WriteAll(f, plan, i + 1,
                    [st EXCEPT
                       !.disk = (w.path :> w.content) @@ @,
                       !.writes = Append(@, [path |-> w.path,
                                             content |-> w.content,
                                             extra |-> w.extra,
                                             key |-> w.key]),
                       !.log = IF w.extra
                               THEN Append(@, [tag |-> "liferay-npm-bundler",
                                               artifact |-> w.key])
                               ELSE @])

\* writeLoadersResult(srcPkg, destPkg, context)
WriteLoadersResult(f, o) ==
    WriteAll(f, PlannedWrites(o.pkg, o.ctx), 1,
             [ok |-> TRUE, disk |-> disk, writes |-> writes[f],
              log |-> o.ctx.log])

\* the file's operation after writeLoadersResult, with the error of a failed
\* write swallowed
AfterWriteSwallow(ok) == "written"

\* the file's operation after writeLoadersResult: the chain of thens goes on
\* to the report when it returned, and rejects when it threw
AfterWrite(ok) == IF ok THEN "written" ELSE "failed"

\* ------------------------------------------------------- the chunked runner

\* number of chunks runInChunks cuts the items into
ChunksCount(r) ==
    IF r.chunkSize = 0 THEN 0
    ELSE (Len(r.files) + r.chunkSize - 1) \div r.chunkSize

\* the k-th chunk (from 0) of the runner's items
Chunk(r, k) ==
    SubSeq(r.files, k * r.chunkSize + 1,
           Min(Len(r.files), (k + 1) * r.chunkSize))

ChunkSet(r, k) == {Chunk(r, k)[i] : i \in 1..Len(Chunk(r, k))}

\* processPackage handing runInChunks a chunk size one too large
ProcessPackageWide(p) ==
    [IdleRunner EXCEPT !.active = TRUE, !.files = FindFiles(p),
                       !.chunkSize = MaxParallelFiles + 1,
                       !.chunkIndex = 0, !.promise = "pending"]

\* processPackage starting runInChunks at chunk 1
ProcessPackageFromOne(p) ==
    [IdleRunner EXCEPT !.active = TRUE, !.files = FindFiles(p),
                       !.chunkSize = MaxParallelFiles,
                       !.chunkIndex = 1, !.promise = "pending"]

\* processPackage(srcPkg): runInChunks(prjSrcFiles,
\* config.bundler.getMaxParallelFiles(), 0, callback)
ProcessPackage(p) ==
    [IdleRunner EXCEPT !.active = TRUE, !.files = FindFiles(p),
                       !.chunkSize = MaxParallelFiles,
                       !.chunkIndex = 0, !.promise = "pending"]

\* the callback of processPackage applied to every file of the chunks the
\* runners rs dispatch: prjSrcFile => processFile(srcPkg, destPkg, prjSrcFile)
Dispatch(rs, which) ==
    [f \in DOMAIN op |->
        IF \E p \in which : f \in ChunkSet(rs[p], rs[p].chunkIndex)
        THEN LET p == CHOOSE q \in which :
                        f \in ChunkSet(rs[q], rs[q].chunkIndex)
             IN  ProcessFile(f, [op[f] EXCEPT !.pkg = p])
        ELSE op[f]]

\* the first file of a chunk whose operation failed
FirstFailed(r, k) ==
    LET c == Chunk(r, k)
        i == CHOOSE j \in 1..Len(c) :
               /\ op[c[j]].pc = "failed"
               /\ \A h \in 1..(j - 1) : op[c[h]].pc # "failed"
    IN  c[i]

\* the barrier rejecting as soon as one operation of the chunk has failed
ChunkSettledEarly(r) ==
    \E f \in ChunkSet(r, r.chunkIndex) : op[f].pc = "failed"

\* the barrier between two chunks: every operation of the chunk has settled
ChunkSettled(r) ==
    \A f \in ChunkSet(r, r.chunkIndex) : Settled(op[f])

\* the runner after its current chunk: a failure in the chunk rejects the
\* runner's promise, and the runner goes on to the next chunk if there is one
AfterChunk(r) ==
    LET k == r.chunkIndex
        failed == \E f \in ChunkSet(r, k) : op[f].pc = "failed"
        r1 == IF failed /\ r.promise = "pending"
              THEN [r EXCEPT !.promise = "rejected",
                             !.err = op[FirstFailed(r, k)].err,
                             !.failedChunk = k]
              ELSE r
    IN  IF k + 1 < ChunksCount(r)
        THEN [r1 EXCEPT !.chunkIndex = k + 1]
        ELSE [r1 EXCEPT !.chunkIndex = k + 1, !.active = FALSE,
                        !.promise = IF @ = "pending" THEN "resolved" ELSE @]

\* ----------------------------------------------------------------- runRules

\* the packages given to runRules, with the clean ones left in
DirtyPkgsUnfiltered == PkgIds

\* dirtyPkgs of runRules: [rootPkg, ...depPkgs].filter(srcPkg => !srcPkg.clean)
DirtyPkgs == SelectSeq(PkgIds, LAMBDA p : ~clean[p])

Dirty == {DirtyPkgs[i] : i \in 1..Len(DirtyPkgs)}

\* Promise.all resolving as soon as one of the promises has resolved
AnyResolved(ps) == ps = {} \/ \E p \in ps : runner[p].promise = "resolved"

\* Promise.all(promises) resolves once every promise has resolved
AllResolved(ps) == \A p \in ps : runner[p].promise = "resolved"

\* the promises among those given to Promise.all that have rejected
Rejected(ps) == {p \in ps : runner[p].promise = "rejected"}

\* ------------------------------------------------------------------ actions

\* runRules(rootPkg, depPkgs): processPackage is called for every dirty
\* package, each call dispatching the first chunk of the package's files
RunRules ==
    /\ rules.state = "idle"
    /\ LET rs == [p \in Pkgs |->
                    IF p \in Dirty THEN ProcessPackage(p) ELSE runner[p]]
       IN  /\ runner' = rs
           /\ op' = Dispatch(rs, Dirty)
    /\ rules' = [rules EXCEPT !.state = "pending"]
    /\ UNCHANGED <<project, objects>>
    /\ UNCHANGED <<clean, chain, unreadable, unwritable, disk, writes,
                   reports, debugLog>>

\* the result of the loader a file's pipeline waits for arrives
Resume(f) ==
    /\ op[f].pc = "await"
    /\ op' = [op EXCEPT ![f] = ResumeLoaders(@)]
    /\ UNCHANGED <<project, objects>>
    /\ UNCHANGED <<clean, chain, unreadable, unwritable, runner, rules, disk,
                   writes, reports, debugLog>>

\* .then(() => writeLoadersResult(srcPkg, destPkg, context))
Write(f) ==
    /\ op[f].pc = "loaded"
    /\ LET st == WriteLoadersResult(f, op[f])
       IN  /\ disk' = st.disk
           /\ writes' = [writes EXCEPT ![f] = st.writes]
           /\ op' = [op EXCEPT
                       ![f].ctx.log = st.log,
                       ![f].pc = AfterWrite(st.ok),
                       ![f].err = IF st.ok THEN @ ELSE <<"EACCES">>,
                       ![f].failKind = IF st.ok THEN @ ELSE "write"]
    /\ UNCHANGED <<project, objects>>
    /\ UNCHANGED <<clean, chain, unreadable, unwritable, runner, rules,
                   reports, debugLog>>

\* .then(() => report.rulesRun(prjSrcFile, context.log))
Report(f) ==
    /\ op[f].pc = "written"
    /\ reports' = [reports EXCEPT ![f] = Append(@, op[f].ctx.log)]
    /\ op' = [op EXCEPT ![f].pc = "done"]
    /\ UNCHANGED <<project, objects>>
    /\ UNCHANGED <<clean, chain, unreadable, unwritable, runner, rules, disk,
                   writes, debugLog>>

\* the continuation of runInChunks after a chunk: the next chunk is
\* dispatched, or the runner is through
ChunkDone(p) ==
    /\ runner[p].active
    /\ ChunkSettled(runner[p])
    /\ LET rs == [runner EXCEPT ![p] = AfterChunk(@)]
       IN  /\ runner' = rs
           /\ op' = IF rs[p].active THEN Dispatch(rs, {p}) ELSE op
    /\ UNCHANGED <<project, objects>>
    /\ UNCHANGED <<clean, chain, unreadable, unwritable, rules, disk, writes,
                   reports, debugLog>>

\* Promise.all(...).then(() => log.debug(`Applied rules to ... packages`))
RulesResolve ==
    /\ rules.state = "pending"
    /\ AllResolved(Dirty)
    /\ rules' = [rules EXCEPT !.state = "resolved"]
    /\ debugLog' = Append(debugLog, Len(DirtyPkgs))
    /\ UNCHANGED <<project, objects>>
    /\ UNCHANGED <<clean, chain, unreadable, unwritable, op, runner, disk,
                   writes, reports>>

\* Promise.all rejects with the error of a package whose promise rejected
RulesReject ==
    /\ rules.state = "pending"
    /\ \E p \in Rejected(Dirty) :
          rules' = [rules EXCEPT !.state = "rejected", !.err = runner[p].err]
    /\ UNCHANGED <<project, objects>>
    /\ UNCHANGED <<clean, chain, unreadable, unwritable, op, runner, disk,
                   writes, reports, debugLog>>

Next ==
    \/ RunRules
    \/ \E f \in AllFiles : Resume(f)
    \/ \E f \in AllFiles : Write(f)
    \/ \E f \in AllFiles : Report(f)
    \/ \E p \in Pkgs : ChunkDone(p)
    \/ RulesResolve
    \/ RulesReject

\* ----------------------------------------------------------- specifications

\* the files some package's globs match
Processable == {f \in AllFiles : \E p \in Pkgs : MatchesGlobs(p, f)}

\* the chains of a build whose rules hold one loader each
RunChains ==
    {<<>>} \cup {<<Loader(k)>> : k \in {"value", "throw", "reject"}}

\* every chain of at most MaxChain loaders
AllChains == UNION {ChainsOfLen(n) : n \in 0..MaxChain}

\* the file the long chains are configured for
FocusFile == <<"lib", "f1">>

NoFault == [unreadable |-> {}, unwritable |-> {}]

ReadFault == [unreadable |-> {FocusFile}, unwritable |-> {}]

WriteFault(path) == [unreadable |-> {}, unwritable |-> {path}]

\* an empty destination tree
EmptyDisk == <<>>

\* a destination tree that holds the output of an earlier build
OldDisk ==
    (<<"build", "f1">> :> <<"old">>) @@ (<<"build", "f1.map">> :> <<"old">>)

\* no Project object has been constructed
NoProject == <<>>

\* no configuration object is in memory
NoObjects == <<>>

\* no runRules call has been made
RunIdle ==
    /\ op = [f \in AllFiles |-> IdleOp]
    /\ runner = [p \in Pkgs |-> IdleRunner]
    /\ rules = [state |-> "idle", err |-> <<>>]
    /\ writes = [f \in AllFiles |-> <<>>]
    /\ reports = [f \in AllFiles |-> <<>>]
    /\ debugLog = <<>>

\* the state before runRules is called; the rules are handed their
\* configuration, and the Project object plays no part in the run
InitRun ==
    /\ RunIdle
    /\ project = NoProject
    /\ objects = NoObjects

\* the files the rules of a build apply to: all but the two lib directories
\* below another directory
RuledFiles ==
    Processable \ {<<"src", "lib", "f1">>,
                   <<"node_modules", "dep1", "lib", "f1">>}

\* a build of any subset of the packages, every ruled file with a chain of at
\* most one loader, on a file system without faults
Init ==
    /\ clean \in [Pkgs -> BOOLEAN]
    /\ \E c \in [RuledFiles -> RunChains] :
          chain = [f \in AllFiles |-> IF f \in RuledFiles THEN c[f] ELSE <<>>]
    /\ unreadable = NoFault.unreadable
    /\ unwritable = NoFault.unwritable
    /\ disk = EmptyDisk
    /\ InitRun

Spec == Init /\ [][Next]_vars

\* a build of both packages, over an empty destination tree or over the
\* output of an earlier build, in which one file has any chain of at most
\* MaxChain loaders and the others have none
InitChains ==
    /\ clean = [p \in Pkgs |-> FALSE]
    /\ disk \in {EmptyDisk, OldDisk}
    /\ \E c \in AllChains :
          chain = [f \in AllFiles |-> IF f = FocusFile THEN c ELSE <<>>]
    /\ \E fault \in {NoFault, ReadFault, WriteFault(<<"build", "f1">>),
                     WriteFault(<<"build", "f1.map">>)} :
          /\ unreadable = fault.unreadable
          /\ unwritable = fault.unwritable
    /\ InitRun

SpecChains == InitChains /\ [][Next]_vars

\* the chains that write: a primary output, alone or with an extra artifact
\* next to it or at the top of the project
WritingChains ==
    {<<Loader("value")>>,
     <<Loader("promise"), Loader("artifact")>>,
     <<Loader("value"), Loader("manifest")>>}

\* a build of both packages in which the files of the root package have one
\* writing chain and the files of the dependency have one, on a file system
\* that may refuse one of the dependency's extra artifacts
InitPaths ==
    /\ clean = [p \in Pkgs |-> FALSE]
    /\ \E c \in WritingChains : \E d \in WritingChains :
          chain = [f \in AllFiles |->
                     IF MatchesGlobs("dep1", f) THEN d ELSE c]
    /\ \E fault \in {NoFault,
                     WriteFault(<<"build", "node_modules", "dep1",
                                  "f1.map">>)} :
          /\ unreadable = fault.unreadable
          /\ unwritable = fault.unwritable
    /\ disk = EmptyDisk
    /\ InitRun

SpecPaths == InitPaths /\ [][Next]_vars

\* ------------------------------------------------------------------ claims

\* the loaders of the file have all been called and none has failed
PipelineSucceeded(f) ==
    \/ op[f].pc \in {"loaded", "written", "done"}
    \/ op[f].pc = "failed" /\ op[f].failKind = "write"

\* the primary outputs written for a file
PrimaryWrites(f) ==
    {writes[f][i] : i \in {j \in 1..Len(writes[f]) : ~writes[f][j].extra}}

RECURSIVE Piped(_, _, _)
\* the context after the loaders from the i-th on have been applied in chain
\* order: a loader that returns undefined leaves content as it is, any other
\* value replaces it
Piped(loaders, i, ctx) ==
    IF i > Len(loaders) THEN ctx
    ELSE LET r == Exec(loaders[i], ctx)
         IN  Piped(loaders, i + 1,
                   IF r.out.val = Undefined THEN r.ctx
                   ELSE [r.ctx EXCEPT !.content = r.out.val])

\* C1: for a file with a non-empty chain whose loaders all succeed, the
\* context's content, and the content of the primary output written for the
\* file, is the result of applying the loaders in chain order to the file's
\* original content, where a returned undefined (directly or through a
\* promise) leaves content as it is and any other returned value replaces it
C1_WrittenContentIsChainResult ==
    \A f \in AllFiles :
        (Len(chain[f]) > 0 /\ PipelineSucceeded(f)) =>
            LET expected == Piped(chain[f], 1, NewContext(f)).content
            IN  /\ op[f].ctx.content = expected
                /\ \A w \in PrimaryWrites(f) : w.content = expected
                /\ (op[f].pc \in {"written", "done"} /\ ~IsNullish(expected))
                     => PrimaryWrites(f) # {}

\* C1 witness: a chain of a loader whose promise resolves to undefined and a
\* loader that returns a content has run, and its result has been written
C1_Witness ==
    /\ chain[FocusFile] = <<Loader("promiseNone"), Loader("value")>>
    /\ op[FocusFile].pc = "done"
    /\ \E w \in PrimaryWrites(FocusFile) :
          w.content = <<"lib", "f1", "value">>

\* the call of the loader fails: it throws or its promise rejects
Fails(loader) == Exec(loader, NoContext).out.kind \in {"throw", "reject"}

\* C2: the loaders of a chain are called in chain order, each once, and a
\* loader that fails is the last one called: the loaders after it are never
\* called, and the file's operation does not succeed
C2_NoLoaderAfterFailure ==
    \A f \in AllFiles :
        LET inv == op[f].invoked
        IN  /\ inv = [n \in 1..Len(inv) |-> n]
            /\ Len(inv) <= Len(op[f].loaders)
            /\ \A n \in 1..Len(inv) :
                  Fails(op[f].loaders[n]) =>
                      /\ n = Len(inv)
                      /\ op[f].pc \in {"await", "failed"}

\* C2 witness: the first loader of a chain of two has failed, the file's
\* operation has failed, and the build has been rejected
C2_Witness ==
    /\ Len(chain[FocusFile]) = 2
    /\ Fails(chain[FocusFile][1])
    /\ op[FocusFile].pc = "failed"
    /\ op[FocusFile].invoked = <<1>>
    /\ rules.state = "rejected"

\* C3: whenever a loader of a file's chain fails, by throwing or by
\* rejecting, the error of the file's operation is the loader's original
\* message prefixed with "Loader '<use>' failed: "
C3_LoaderErrorIsAnnotated ==
    \A f \in AllFiles :
        (op[f].pc = "failed" /\ op[f].failKind \in {"throw", "reject"}) =>
            LET loader == op[f].loaders[op[f].failedLoader]
            IN  op[f].err = Annotate(loader.use, OriginalMessage(loader.use))

\* the files handed to the package's runner
FilesOf(p) == {runner[p].files[i] : i \in 1..Len(runner[p].files)}

\* the files of the package whose operation is started and not settled
InFlightOf(p) == {f \in FilesOf(p) : InFlight(op[f])}

\* the chunk (from 0) of the file at position i of a list cut into groups of
\* the configured size
ConfiguredChunk(i) == (i - 1) \div MaxParallelFiles

\* C4: within one package's run, at most the configured maximum of
\* operations is started and not settled, and no operation of a later chunk
\* is started before every operation of an earlier chunk has settled
C4_BoundedChunks ==
    \A p \in Pkgs :
        /\ Cardinality(InFlightOf(p)) <= MaxParallelFiles
        /\ \A i, j \in 1..Len(runner[p].files) :
              (/\ ConfiguredChunk(i) < ConfiguredChunk(j)
               /\ op[runner[p].files[j]].attempts > 0)
                  => Settled(op[runner[p].files[i]])

\* C4 witness: the root package has as many operations in flight as the
\* maximum allows, while a file of its next chunk waits to be started
C4_Witness ==
    /\ Cardinality(InFlightOf("root")) = MaxParallelFiles
    /\ \E f \in FilesOf("root") : op[f].attempts = 0

\* C5: no file is attempted twice, and once a package's runner is through,
\* every file of its list has been attempted exactly once, also when an
\* operation has failed
C5_EveryFileAttemptedOnce ==
    /\ \A f \in AllFiles : op[f].attempts <= 1
    /\ \A p \in Pkgs :
          (runner[p].promise # "none" /\ ~runner[p].active) =>
              \A f \in FilesOf(p) : op[f].attempts = 1

\* C5 witness: the root package's runner is through after an operation of
\* its first chunk failed, and the file of its second chunk was attempted
C5_Witness ==
    /\ ~runner["root"].active
    /\ runner["root"].promise = "rejected"
    /\ runner["root"].failedChunk = 0
    /\ op[<<"lib", "f1">>].pc = "failed"
    /\ op[<<"src", "f2">>].attempts = 1

\* C6: a build in which the processing of a file has failed never resolves,
\* and when it has come to rest the promise of runRules is rejected
C6_FailureRejectsRunRules ==
    /\ rules.state = "resolved" => \A f \in AllFiles : op[f].pc # "failed"
    /\ ((\E f \in AllFiles : op[f].pc = "failed") /\ ~ENABLED Next)
          => rules.state = "rejected"

\* C6 witness: the second loader of a chain has failed and runRules has
\* rejected, while the dependency was processed without failure
C6_Witness ==
    /\ op[FocusFile].pc = "failed"
    /\ op[FocusFile].failedLoader = 2
    /\ runner["dep1"].promise = "resolved"
    /\ rules.state = "rejected"

\* C7: when a runner's promise is rejected, every operation of the chunk the
\* failure comes from has settled; and runRules rejects only with the error
\* of such a runner
C7_FailureAfterChunkSettled ==
    /\ \A p \in Pkgs :
          runner[p].promise = "rejected" =>
              \A f \in ChunkSet(runner[p], runner[p].failedChunk) :
                  Settled(op[f])
    /\ rules.state = "rejected" =>
          \E p \in Dirty : /\ runner[p].promise = "rejected"
                           /\ rules.err = runner[p].err

\* C7 witness: the root runner's promise is rejected for its first chunk, in
\* which one operation failed when it was started and the other one ran to
\* its end and wrote its output
C7_Witness ==
    /\ runner["root"].promise = "rejected"
    /\ runner["root"].failedChunk = 0
    /\ op[<<"lib", "f1">>].failKind = "throw"
    /\ op[<<"src", "f1">>].pc = "done"
    /\ Len(writes[<<"src", "f1">>]) = 1

\* C8, as stated: no two writes made for different files go to the same
\* destination path
C8_NoSharedDestination ==
    \A f, g \in AllFiles :
        f # g =>
            \A i \in 1..Len(writes[f]) : \A j \in 1..Len(writes[g]) :
                writes[f][i].path # writes[g][j].path

\* the position in project.sources of the first source directory a path
\* starts with, 0 when it starts with none
FirstSource(pkgFile) ==
    LET hits == {i \in 1..Len(Sources) :
                   IsPrefix(Sources[i], pkgFile)
                   /\ Len(pkgFile) > Len(Sources[i])}
    IN  IF hits = {} THEN 0
        ELSE CHOOSE i \in hits : \A h \in hits : i <= h

\* two files of one package whose paths lose the same prefix on the way to
\* the destination: any two files of a dependency, and two files of the root
\* package that start with the same source directory
SameOrigin(f, g) ==
    /\ op[f].pkg = op[g].pkg
    /\ op[f].pkg # "none"
    /\ \/ ~IsRoot(op[f].pkg)
       \/ FirstSource(PkgFile(op[f].pkg, f))
             = FirstSource(PkgFile(op[g].pkg, g))

\* C8, amended: the primary outputs of two different files of the same
\* package never go to the same destination path, provided the package is a
\* dependency or both files start with the same source directory
C8_PrimaryOutputsOfSameOriginDiffer ==
    \A f, g \in AllFiles :
        (f # g /\ SameOrigin(f, g)) =>
            \A w \in PrimaryWrites(f) : \A v \in PrimaryWrites(g) :
                w.path # v.path

\* C8 witness: two files of the root package's src directory and the two
\* files of the dependency have all had their primary output written
C8_Witness ==
    /\ PrimaryWrites(<<"src", "f1">>) # {}
    /\ PrimaryWrites(<<"src", "f2">>) # {}
    /\ PrimaryWrites(<<"node_modules", "dep1", "f1">>) # {}
    /\ PrimaryWrites(<<"node_modules", "dep1", "lib", "f1">>) # {}

\* C9: for a file whose chain is empty no loader is called, nothing is read
\* into a context, nothing is written or reported, and the call made for the
\* file has succeeded as soon as it is made
C9_EmptyChainIsNoOp ==
    \A f \in AllFiles :
        Len(chain[f]) = 0 =>
            /\ op[f].pc \in {"idle", "done"}
            /\ op[f].attempts > 0 => op[f].pc = "done"
            /\ op[f].invoked = <<>>
            /\ op[f].ctx = NoContext
            /\ writes[f] = <<>>
            /\ reports[f] = <<>>

\* C9 witness: a file without rules has been attempted in a build that
\* wrote the output of another file of the same package
C9_Witness ==
    /\ chain[<<"node_modules", "dep1", "lib", "f1">>] = <<>>
    /\ op[<<"node_modules", "dep1", "lib", "f1">>].attempts = 1
    /\ op[<<"node_modules", "dep1", "lib", "f1">>].pc = "done"
    /\ writes[<<"node_modules", "dep1", "f1">>] # <<>>

\* C10: when the promise of runRules has resolved, every file found for
\* every dirty package has been attempted
C10_ResolvedMeansAllAttempted ==
    rules.state = "resolved" =>
        \A p \in Dirty :
            \A i \in 1..Len(FindFiles(p)) : op[FindFiles(p)[i]].attempts = 1

\* C10 witness: a build of both packages has resolved after the root
\* package's second chunk was processed
C10_Witness ==
    /\ rules.state = "resolved"
    /\ Dirty = Pkgs
    /\ Len(writes[<<"src", "f2">>]) = 1

\* ------------------------------------------------------------------- C11

\* the files of package p that the rules apply to
RuleFilesOf(p) == {FindFiles(p)[i] : i \in 1..Len(FindFiles(p))}

\* the run has not started package p nor touched any of its files
Untouched(p) ==
    /\ runner[p] = IdleRunner
    /\ \A f \in RuleFilesOf(p) :
          /\ op[f] = IdleOp
          /\ writes[f] = <<>>
          /\ reports[f] = <<>>

\* C11: a package marked clean is never processed: its runner is never
\* started and none of its files is read, run through a loader, written or
\* reported; when the run succeeds the one debug line carries the number of
\* packages that are not clean.
C11_CleanPackagesAreSkipped ==
    /\ \A p \in Pkgs : clean[p] => Untouched(p)
    /\ rules.state = "resolved" =>
          debugLog = << Cardinality({p \in Pkgs : ~clean[p]}) >>
    /\ rules.state # "resolved" => debugLog = <<>>

\* the root package is clean and stays untouched while the dependency is
\* processed, written and counted
C11_Witness ==
    /\ clean["root"] /\ ~clean["dep1"]
    /\ rules.state = "resolved"
    /\ debugLog = <<1>>
    /\ Len(writes[<<"node_modules", "dep1", "f1">>]) = 1
    /\ Untouched("root")

\* ------------------------------------------------------------------- C12

\* the package whose rules apply to file f
PkgOfFile(f) == CHOOSE p \in Pkgs : f \in RuleFilesOf(p)

\* the path below the destination directory the claim gives a project path
\* of package p: its path relative to the package, less, in the root package
\* only, the one source directory that prefixes it first in configured order
DestRelative(p, key) ==
    LET rel == PathRelative(PkgDir(p), key)
        s == FirstSource(rel)
    IN  IF IsRoot(p) /\ s # 0 THEN Drop(rel, Len(Sources[s])) ELSE rel

\* C12: every file written, primary output or extra artifact, is placed
\* under the destination directory of its package at its path relative to
\* the source package; for the root package the first configured source
\* directory that prefixes that path is removed from it, once, and a path no
\* source directory prefixes is unchanged; for a dependency the relative path
\* is kept as it is.
C12_DestinationPaths ==
    \A f \in Processable : \A i \in 1..Len(writes[f]) :
        LET w == writes[f][i]
            p == PkgOfFile(f)
        IN  w.path = PathJoin(GetDestDir(p), DestRelative(p, w.key))

\* root files are written with one source directory removed and no more, a
\* root artifact outside the source directories keeps its path, and the
\* dependency's files keep theirs, a leading lib included
C12_Witness ==
    /\ rules.state = "resolved"
    /\ \E i \in 1..Len(writes[<<"src", "lib", "f1">>]) :
          LET w == writes[<<"src", "lib", "f1">>][i]
          IN  ~w.extra /\ w.path = <<"build", "lib", "f1">>
    /\ \E i \in 1..Len(writes[<<"src", "f1">>]) :
          LET w == writes[<<"src", "f1">>][i]
          IN  w.extra /\ w.path = <<"build", "manifest.json">>
    /\ \E i \in 1..Len(writes[<<"node_modules", "dep1", "lib", "f1">>]) :
          LET w == writes[<<"node_modules", "dep1", "lib", "f1">>][i]
          IN  ~w.extra /\ w.path = <<"build", "node_modules", "dep1", "lib", "f1">>

\* ------------------------------------------------------------------- C13

\* the positions in the file's write history of the extra artifact filed
\* under key
ExtraWrites(f, key) ==
    {i \in 1..Len(writes[f]) : writes[f][i].extra /\ writes[f][i].key = key}

\* the positions in the file's diagnostics of the info lines the engine
\* wrote about the artifact filed under key
InfoLines(f, key) ==
    {i \in 1..Len(op[f].ctx.log) :
        op[f].ctx.log[i] = [tag |-> "liferay-npm-bundler", artifact |-> key]}

\* the extra writes of the file
AllExtraWrites(f) == {i \in 1..Len(writes[f]) : writes[f][i].extra}

PrimaryPath(f) == AbsFile(op[f].pkg, PkgFile(op[f].pkg, f))

\* C14 as stated: once the writer has gone through a file, its primary
\* output has been written if and only if the final content is not
\* undefined.
C14_WrittenUnlessUndefined ==
    \A f \in Processable :
        op[f].pc \in {"written", "done"} =>
            (PrimaryWrites(f) # {} <=> ~IsUndefined(op[f].ctx.content))

\* C14: the step in which the writer goes through a file writes its primary
\* output if and only if the final content is neither undefined nor null;
\* when written, the destination path holds exactly that content after the
\* step, whatever was at the path before; when not written, the path is left
\* as it was, and the extra artifacts with defined content are written all
\* the same.
C14_PrimaryOutputUnlessNullish ==
    [][\A f \in Processable :
          (op[f].pc = "loaded" /\ op'[f].pc = "written") =>
              LET ctx == op[f].ctx
                  path == PrimaryPath(f)
                  new == SubSeq(writes'[f], Len(writes[f]) + 1,
                                Len(writes'[f]))
                  primaries == {i \in 1..Len(new) : ~new[i].extra}
              IN  /\ IF IsNullish(ctx.content)
                     THEN /\ primaries = {}
                          /\ path \in DOMAIN disk' <=> path \in DOMAIN disk
                          /\ path \in DOMAIN disk => disk'[path] = disk[path]
                     ELSE /\ primaries = {1}
                          /\ new[1].path = path
                          /\ new[1].content = ctx.content
                          /\ path \in DOMAIN disk'
                          /\ disk'[path] = ctx.content
                  /\ \A a \in 1..Len(ctx.extraArtifacts) :
                        ~IsNullish(ctx.extraArtifacts[a].content) =>
                            \E i \in 1..Len(new) :
                                /\ new[i].extra
                                /\ new[i].key = ctx.extraArtifacts[a].path
                                /\ disk'[new[i].path] =
                                      ctx.extraArtifacts[a].content
      ]_vars

\* the output of an earlier build was overwritten with the final content of
\* the file, next to a file of that build the run left alone
C14_Witness ==
    /\ chain[FocusFile] = <<Loader("value")>>
    /\ op[FocusFile].pc = "done"
    /\ {<<"build", "f1">>, <<"build", "f1.map">>} \subseteq DOMAIN disk
    /\ disk[<<"build", "f1">>] = op[FocusFile].ctx.content
    /\ op[FocusFile].ctx.content # <<"old">>
    /\ disk[<<"build", "f1.map">>] = <<"old">>

\* ------------------------------------------------------------------- C15

\* the files, of any package, whose operation is started and not settled
InFlightFiles == {f \in Processable : InFlight(op[f])}

\* C15: at every instant of a build, the number of file operations in
\* flight, counted across all packages, is at most the configured
\* maxParallelFiles.
C15_BoundAcrossPackages == Cardinality(InFlightFiles) <= MaxParallelFiles

\* ------------------------------------------------------------------- C16

\* C16: the loaders of a file are called strictly one after the other,
\* whatever the pipelines of other files do in between: a step calls at most
\* one loader of a file, the loaders are called in chain order, and loader
\* i+1 is called only in the continuation of loader i, when loader i has
\* returned and the promise it returned has resolved; it is called on the
\* context with that result applied.
C16_LoadersRunInSequence ==
    [][\A f \in Processable :
          op'[f].invoked # op[f].invoked =>
              LET n == Len(op[f].invoked)
              IN  /\ op'[f].invoked = Append(op[f].invoked, n + 1)
                  /\ n + 1 <= Len(chain[f])
                  /\ IF n = 0
                     THEN op[f].pc = "idle"
                     ELSE /\ op[f].pc = "await"
                          /\ op[f].idx = n
                          /\ op[f].pending.kind \in {"return", "resolve"}
                          /\ op'[f].ctx =
                                Exec(chain[f][n + 1],
                                     ApplyResult(op[f].ctx,
                                                 op[f].pending.val)).ctx
      ]_vars

\* the second loader of a file has been called after the promise of its
\* first loader resolved, while the first loader of another file of the same
\* chunk is still pending
C16_Witness ==
    /\ chain[<<"src", "f1">>] = <<Loader("promise"), Loader("artifact")>>
    /\ op[<<"src", "f1">>].invoked = <<1, 2>>
    /\ op[<<"lib", "f1">>].pc = "await"
    /\ op[<<"lib", "f1">>].invoked = <<1>>
    /\ op[<<"lib", "f1">>].pending.kind = "resolve"

\* ------------------------------------------------------------------- C17

\* the writes a step adds to the history of file f
NewWrites(f) ==
    {writes'[f][i] : i \in (Len(writes[f]) + 1)..Len(writes'[f])}

\* C17: nothing written is ever rolled back, whether the build goes on or
\* fails: every file a step writes is on the file system with its content
\* after the step, the step in which a later write of the same file fails
\* included, and a file on the file system stays there with its content
\* until a later write to its own path replaces it.
C17_NoRollback ==
    [][/\ \A f \in Processable : \A w \in NewWrites(f) :
             /\ w.path \in DOMAIN disk'
             /\ disk'[w.path] = w.content
       /\ \A path \in DOMAIN disk :
             /\ path \in DOMAIN disk'
             /\ \/ disk'[path] = disk[path]
                \/ \E f \in Processable : \E w \in NewWrites(f) :
                      w.path = path
      ]_vars

\* the build has failed on the second write of a file of the dependency;
\* the first write of that file and the outputs of a root file are on the
\* file system with their content
C17_Witness ==
    LET f == <<"node_modules", "dep1", "f1">>
        g == <<"src", "f2">>
    IN  /\ rules.state = "rejected"
        /\ op[f].pc = "failed" /\ op[f].failKind = "write"
        /\ Len(writes[f]) = 1
        /\ disk[writes[f][1].path] = writes[f][1].content
        /\ op[g].pc = "done"
        /\ Len(writes[g]) = 2
        /\ \A i \in 1..2 : disk[writes[g][i].path] = writes[g][i].content

\* ------------------------------------------------------------------- C18

\* the positions of a chain, in order
ChainOrder(f) == [i \in 1..Len(chain[f]) |-> i]

\* C18: the chain of a file is resolved once, and for a file with a
\* non-empty chain the order is: all loaders run, the result is written, the
\* diagnostics are reported.  Nothing is written before every loader of the
\* chain has run in order; report.rulesRun is called at most once per file,
\* with the file's diagnostics, and only when every write of the file is
\* done; it is called exactly once for a file that is through, and never for
\* a file with an empty chain or one whose pipeline or write failed.
C18_ReportOnceAfterWrites ==
    \A f \in Processable :
        /\ op[f].attempts <= 1
        /\ op[f].attempts = 1 => op[f].loaders = chain[f]
        /\ writes[f] # <<>> => op[f].invoked = ChainOrder(f)
        /\ Len(reports[f]) <= 1
        /\ reports[f] # <<>> <=> (op[f].pc = "done" /\ chain[f] # <<>>)
        /\ reports[f] # <<>> =>
              /\ op[f].invoked = ChainOrder(f)
              /\ Len(writes[f]) = Len(PlannedWrites(op[f].pkg, op[f].ctx))
              /\ reports[f] = << op[f].ctx.log >>
        /\ op[f].pc = "failed" => reports[f] = <<>>

\* a file went through a chain of two loaders, a primary output and an
\* extra artifact were written, and the report carries the one info line
C18_Witness ==
    /\ chain[FocusFile] = <<Loader("value"), Loader("artifact")>>
    /\ op[FocusFile].pc = "done"
    /\ op[FocusFile].invoked = <<1, 2>>
    /\ Len(writes[FocusFile]) = 2
    /\ Len(reports[FocusFile]) = 1
    /\ Len(reports[FocusFile][1]) = 1
    /\ reports[<<"src", "f1">>] = <<>>
    /\ op[<<"src", "f1">>].pc = "done"

\* ------------------------------------------------------------------- C19

\* the context a file's own chain makes of the file's own content
OwnContext(f) == Piped(chain[f], 1, NewContext(f))

\* the writes that follow from the file's own context
OwnWrites(f) ==
    IF chain[f] = <<>> THEN <<>>
    ELSE PlannedWrites(PkgOfFile(f), OwnContext(f))

\* the diagnostics that follow from the file's own context
OwnLog(f) ==
    LET extras == SelectSeq(OwnWrites(f), LAMBDA w : w.extra)
    IN  [i \in 1..Len(extras) |->
            [tag |-> "liferay-npm-bundler", artifact |-> extras[i].key]]

\* C19: whatever the other files of the build do and however their
\* pipelines interleave with this one, the final context of a file, what is
\* written for it and what is reported for it are a function of the file's
\* own path, original content and chain: the context is the one its own
\* chain makes of its own content, the writes are the ones that follow from
\* that context (all of them, or the first ones when a write failed), and the
\* report is the diagnostics of those writes.
C19_ResultsDependOnOwnInputsOnly ==
    \A f \in Processable :
        /\ (PipelineSucceeded(f) /\ chain[f] # <<>>) =>
              /\ op[f].ctx.filePath = f
              /\ op[f].ctx.content = OwnContext(f).content
              /\ op[f].ctx.extraArtifacts = OwnContext(f).extraArtifacts
        /\ Len(writes[f]) <= Len(OwnWrites(f))
        /\ writes[f] = SubSeq(OwnWrites(f), 1, Len(writes[f]))
        /\ op[f].pc \in {"written", "done"} => writes[f] = OwnWrites(f)
        /\ reports[f] \in {<<>>, << OwnLog(f) >>}

\* a root file is through, with its own output and artifact written and
\* reported, while a file of the dependency that started at the same time
\* under another chain is still waiting for its first loader
C19_Witness ==
    LET f == <<"src", "f2">>
        g == <<"node_modules", "dep1", "f1">>
    IN  /\ chain[f] = <<Loader("promise"), Loader("artifact")>>
        /\ chain[g] = <<Loader("value"), Loader("manifest")>>
        /\ op[f].pc = "done"
        /\ writes[f] = OwnWrites(f)
        /\ Len(writes[f]) = 2
        /\ reports[f] = << OwnLog(f) >>
        /\ op[<<"lib", "f1">>].pc = "done"
        /\ op[g].pc = "await"

\* ------------------------------------------------------------------- C20

\* the pipeline of the file failed: its content could not be read, or a
\* loader threw or rejected
PipelineFailed(f) == op[f].failKind \in {"read", "throw", "reject"}

\* C20: when the pipeline of a file fails, nothing is ever written or
\* reported for that file: no primary output, none of the extra artifacts
\* the loaders before the failing one put into the context, no info line and
\* no report; the file being the only one with loaders, the destination tree
\* is as the run found it.
C20_FailedPipelineWritesNothing ==
    \A f \in Processable :
        PipelineFailed(f) =>
            /\ op[f].pc = "failed"
            /\ writes[f] = <<>>
            /\ reports[f] = <<>>
            /\ op[f].ctx.log = <<>>
            /\ \A path \in DOMAIN disk :
                  path \in DOMAIN OldDisk /\ disk[path] = OldDisk[path]

\* the second loader of the chain threw after the first one had put a source
\* map into the context; the build failed and nothing of the file is written
C20_Witness ==
    /\ chain[FocusFile] = <<Loader("artifact"), Loader("throw")>>
    /\ PipelineFailed(FocusFile)
    /\ op[FocusFile].ctx.extraArtifacts # <<>>
    /\ ~IsNullish(op[FocusFile].ctx.content)
    /\ writes[FocusFile] = <<>>
    /\ rules.state = "rejected"

\* ------------------------------------------------------------------- C21

\* the promise runRules returned has settled
RulesSettled == rules.state \in {"resolved", "rejected"}

\* C21: once the promise returned by runRules has settled, the run is
\* quiescent: no step calls a loader or writes a destination file any more.
C21_QuiescentOnceSettled ==
    [][RulesSettled =>
          /\ \A f \in Processable : op'[f].invoked = op[f].invoked
          /\ writes' = writes
          /\ disk' = disk
      ]_vars

\* ================================================== the Project object
\* JsonModifier.ts, class Project: the configuration of a project, loaded
\* by loadFrom and read through getters that cache what they compute.

\* ---------------------------------------------------------- environment

\* process.cwd()
Cwd == <<"/", "cwd">>

\* path.isAbsolute
IsAbsolute(p) == p # <<>> /\ Head(p) = "/"

\* path.resolve of a path without '..'
PathResolve(p) ==
    IF IsAbsolute(p) THEN p ELSE Cwd \o SelectSeq(p, LAMBDA x : x # ".")

\* the default of loadFrom's configFilePath
DefaultConfigFile == <<"liferay-npm-bundler.config.js">>

\* the project directories loadFrom is called with
ProjectPaths == {<<".">>, <<"proj">>}

\* the configuration file of the project in proj, as an absolute path
ProjConfigFile == Cwd \o <<"proj">> \o DefaultConfigFile

\* a configuration file that does not exist
MissingConfigFile == <<"missing.config.js">>

\* what the configuration file of the project in the working directory
\* exports
ConfigCwd ==
    [output |-> <<"dist">>,
     source |-> <<"src">>,
     sources |-> << <<"src">>, <<".", "lib">> >>,
     imports |-> << [provider |-> "provider", pkgName |-> "/",
                     version |-> "^1.0.0"] >>,
     webpack |-> <<"mode", "production">>,
     preset |-> <<"preset-cwd", "config.json">>]

\* what the configuration file of the project in proj exports
ConfigProj ==
    [exports |-> [api |-> <<".", "api.js">>],
     imports |-> << [provider |-> "other", pkgName |-> "dep",
                     version |-> "^2.0.0"] >>,
     webpack |-> <<"mode", "development">>,
     workdir |-> <<"work">>]

\* the configuration files on disk: what require(configFilePath) evaluates
ModuleFiles ==
    ((Cwd \o DefaultConfigFile) :> ConfigCwd) @@ (ProjConfigFile :> ConfigProj)

\* the package.json files on disk
PkgJsonFiles ==
    ((Cwd \o <<"package.json">>) :> [name |-> <<"app">>])
    @@ ((Cwd \o <<"proj", "package.json">>) :>
            [name |-> <<"lib">>, main |-> <<"lib", "main.js">>])

\* the other files fs.existsSync is asked about
OtherFiles ==
    {Cwd \o <<"yarn.lock">>,
     Cwd \o <<"proj", "package-lock.json">>,
     Cwd \o <<"src", "index.js">>}

\* fs.existsSync
ExistsSync(p) ==
    PathResolve(p) \in DOMAIN ModuleFiles \cup DOMAIN PkgJsonFiles \cup OtherFiles

\* childProcess.spawnSync(cmd, ['--version']).error === undefined
CommandPresent(cmd) == cmd = "npm"

\* this.adapt.supported of the Adapt subdomain built by the last loadFrom
AdaptSupported(projectDir) == projectDir = Cwd \o <<"proj">>

\* prop.get(object, key, defaultValue)
PropGet(object, key, defaultValue) ==
    IF key \in DOMAIN object THEN object[key] ELSE defaultValue

\* the empty object {}
EmptyObject == [k \in {} |-> TRUE]

\* the identity of the object a {} in _loadConfiguration creates
FreshObject == <<"{}">>

\* a private field holding undefined
Unset == <<>>

\* a private field holding value v
Set(v) == <<v>>

\* FilePath.toDotRelative, and the `./${x}` prefixing the getters do
DotRelative(p) == IF p # <<>> /\ Head(p) = "." /\ Len(p) > 1 THEN p
                  ELSE <<".">> \o p

\* --------------------------------------------------------------- fields

\* the private fields of a Project object before loadFrom has run
NewProject ==
    [_buildDir |-> Unset, _configFile |-> Unset, _configuration |-> Unset,
     _pkgJson |-> Unset, _pkgManager |-> Unset, _projectDir |-> Unset,
     _sources |-> Unset, _toolsDir |-> Unset, _exports |-> Unset,
     _imports |-> Unset, _webpackConfiguration |-> Unset,
     _versionsInfo |-> Unset, _srcDir |-> Unset, _workDir |-> Unset]

\* this._configuration: the object the field refers to
Configuration(pr, objs) == objs[pr._configuration[1]]

\* get npmbundlerrc
Npmbundlerrc(pr, objs) == Configuration(pr, objs)

\* -------------------------------------------------------------- getters
\* every getter is the object after the call; what the call returns is the
\* content of the getter's field in that object

\* get srcDir
GetSrcDir(pr, objs) ==
    IF pr._srcDir = Unset
    THEN [pr EXCEPT !._srcDir =
            Set(DotRelative(PropGet(Configuration(pr, objs), "source",
                                    <<".">>)))]
    ELSE pr

\* get buildDir
GetBuildDir(pr, objs) ==
    IF pr._buildDir = Unset
    THEN [pr EXCEPT !._buildDir =
            Set(DotRelative(
                  PropGet(Configuration(pr, objs), "output",
                          IF AdaptSupported(pr._projectDir[1])
                          THEN <<".", "build.liferay">>
                          ELSE <<".", "build">>)))]
    ELSE pr

\* get sources
GetSources(pr, objs) ==
    IF pr._sources = Unset
    THEN LET sources == PropGet(Configuration(pr, objs), "sources", <<>>)
         IN  [pr EXCEPT !._sources =
                Set([i \in 1..Len(sources) |-> DotRelative(sources[i])])]
    ELSE pr

\* the main entry of package.json as a module path
MainModule(main) ==
    IF Head(main) = "/" THEN <<".">> \o Tail(main)
    ELSE IF Head(main) # "." THEN <<".">> \o main
    ELSE main

\* get exports; reading this.srcDir fills _srcDir on the way
GetExports(pr, objs) ==
    IF pr._exports = Unset
    THEN LET exports == PropGet(Configuration(pr, objs), "exports",
                                EmptyObject)
         IN  IF "main" \in DOMAIN exports
             THEN [pr EXCEPT !._exports = Set(exports)]
             ELSE LET withSrcDir == GetSrcDir(pr, objs)
                      pkgJson == pr._pkgJson[1]
                  IN  IF "main" \in DOMAIN pkgJson
                      THEN [withSrcDir EXCEPT !._exports =
                              Set(("main" :> MainModule(pkgJson.main))
                                  @@ exports)]
                      ELSE IF ExistsSync(withSrcDir._srcDir[1]
                                         \o <<"index.js">>)
                      THEN [withSrcDir EXCEPT !._exports =
                              Set(("main" :> <<".", "index.js">>)
                                  @@ exports)]
                      ELSE [withSrcDir EXCEPT !._exports = Set(exports)]
    ELSE pr

\* get imports
GetImports(pr, objs) ==
    IF pr._imports = Unset
    THEN LET imports == PropGet(Configuration(pr, objs), "imports", <<>>)
         IN  [pr EXCEPT !._imports =
                Set([i \in 1..Len(imports) |->
                       [pkgName |-> IF imports[i].pkgName = "/"
                                    THEN imports[i].provider
                                    ELSE imports[i].pkgName,
                        provider |-> imports[i].provider,
                        version |-> imports[i].version]])]
    ELSE pr

\* get webpackConfiguration
GetWebpackConfiguration(pr, objs) ==
    IF pr._webpackConfiguration = Unset
    THEN [pr EXCEPT !._webpackConfiguration =
            Set(PropGet(Configuration(pr, objs), "webpack", <<>>))]
    ELSE pr

\* get workDir: the field is filled only when a work directory is configured
GetWorkDir(pr, objs) ==
    IF pr._workDir = Unset /\ "workdir" \in DOMAIN Configuration(pr, objs)
    THEN [pr EXCEPT !._workDir =
            Set(DotRelative(Configuration(pr, objs).workdir))]
    ELSE pr

\* get pkgManager
GetPkgManager(pr, objs) ==
    IF pr._pkgManager = Unset
    THEN LET dir == pr._projectDir[1]
             yarnLock == ExistsSync(dir \o <<"yarn.lock">>)
             pkgLock == ExistsSync(dir \o <<"package-lock.json">>)
             yarn == CommandPresent("yarn")
             npm == CommandPresent("npm")
         IN  [pr EXCEPT !._pkgManager =
                Set(IF yarnLock /\ ~pkgLock THEN "yarn"
                    ELSE IF pkgLock /\ ~yarnLock THEN "npm"
                    ELSE IF yarn /\ ~npm THEN "yarn"
                    ELSE IF npm /\ ~yarn THEN "npm"
                    ELSE "null")]
    ELSE pr

\* putInMap of get versionsInfo: the entry of a package
VersionInfo(packageName) ==
    [name |-> packageName, path |-> <<"node_modules", packageName>>]

\* get versionsInfo
GetVersionsInfo(pr, objs) ==
    IF pr._versionsInfo = Unset
    THEN LET cfg == Configuration(pr, objs)
             base == << VersionInfo("liferay-npm-bundler"),
                        VersionInfo("generator-js") >>
         IN  [pr EXCEPT !._versionsInfo =
                Set(IF "preset" \in DOMAIN cfg
                    THEN Append(base, VersionInfo(Head(cfg.preset)))
                    ELSE base)]
    ELSE pr

\* ------------------------------------------------------------- loading

\* _loadPkgJson
LoadPkgJson(pr) ==
    LET pkgJsonPath == pr._projectDir[1] \o <<"package.json">>
    IN  [pr EXCEPT !._pkgJson =
           Set(IF ExistsSync(pkgJsonPath) THEN PkgJsonFiles[pkgJsonPath]
               ELSE EmptyObject)]

\* _loadConfiguration: require answers the one object of the module, the
\* same at every call; a missing file gives a new empty object.  An empty
\* object nothing refers to any more is dropped from memory.
LoadConfiguration(pr, objs) ==
    LET configFilePath == pr._configFile[1]
        modules == [m \in DOMAIN ModuleFiles |-> objs[m]]
    IN  IF ExistsSync(configFilePath)
        THEN [project |-> [pr EXCEPT !._configuration = Set(configFilePath)],
              objects |-> modules]
        ELSE [project |-> [pr EXCEPT !._configuration = Set(FreshObject)],
              objects |-> (FreshObject :> EmptyObject) @@ modules]

\* loadFrom(projectPath, configFilePath): the fields it resets, the
\* directories, package.json and the configuration
LoadFrom(pr, objs, projectPath, configFilePath) ==
    LET reset == [pr EXCEPT !._buildDir = Unset, !._configFile = Unset,
                            !._configuration = Unset, !._pkgJson = Unset,
                            !._pkgManager = Unset, !._projectDir = Unset,
                            !._sources = Unset, !._srcDir = Unset,
                            !._toolsDir = Unset]
        dirs == [reset EXCEPT
                   !._projectDir = Set(PathResolve(projectPath)),
                   !._configFile =
                      Set(IF IsAbsolute(configFilePath) THEN configFilePath
                          ELSE PathResolve(projectPath \o configFilePath)),
                   !._toolsDir = Set(PathResolve(projectPath))]
    IN  LoadConfiguration(LoadPkgJson(dirs), objs)

\* argv.config not given
NoConfig == <<>>

\* the program arguments the setter is called with
Argvs ==
    [config : {NoConfig, DefaultConfigFile, ProjConfigFile,
               MissingConfigFile},
     createJar : BOOLEAN,
     dumpReport : BOOLEAN]

\* object with the properties argv asks for set to true
WithOptions(object, argv) ==
    (IF argv.createJar THEN "create-jar" :> TRUE ELSE EmptyObject)
    @@ (IF argv.dumpReport THEN "dump-report" :> TRUE ELSE EmptyObject)
    @@ object

\* set argv: _configuration is read into a local before loadFrom runs, and
\* the options are set on the object the local refers to.  When loadFrom
\* made a new empty object the old one is no longer in memory.
SetArgvTo(pr, objs, argv) ==
    LET old == pr._configuration[1]
        loaded == IF argv.config # NoConfig
                  THEN LoadFrom(pr, objs, <<".">>, argv.config)
                  ELSE [project |-> pr, objects |-> objs]
        alive == old \in DOMAIN ModuleFiles \/ argv.config = NoConfig
    IN  [project |-> loaded.project,
         objects |-> IF alive
                     THEN [loaded.objects EXCEPT
                             ![old] = WithOptions(@, argv)]
                     ELSE loaded.objects]

\* -------------------------------------------------------------- actions

\* the variables of a runRules run, which the Project object does not touch
runVars ==
    <<clean, chain, unreadable, unwritable, op, runner, rules, disk, writes,
      reports, debugLog>>

\* the configuration files loadFrom is pointed at
ConfigFilePaths == {DefaultConfigFile, MissingConfigFile}

\* project.loadFrom(projectPath, configFilePath)
Reload ==
    /\ \E projectPath \in ProjectPaths : \E configFilePath \in ConfigFilePaths :
          LET r == LoadFrom(project, objects, projectPath, configFilePath)
          IN  project' = r.project /\ objects' = r.objects
    /\ UNCHANGED runVars

\* project.argv = argv
SetArgv ==
    /\ \E argv \in Argvs :
          LET r == SetArgvTo(project, objects, argv)
          IN  project' = r.project /\ objects' = r.objects
    /\ UNCHANGED runVars

\* project.buildDir read while its field is empty
ReadBuildDir ==
    /\ project._buildDir = Unset
    /\ project' = GetBuildDir(project, objects)
    /\ UNCHANGED <<runVars, objects>>

\* project.sources read while its field is empty
ReadSources ==
    /\ project._sources = Unset
    /\ project' = GetSources(project, objects)
    /\ UNCHANGED <<runVars, objects>>

\* project.srcDir read while its field is empty
ReadSrcDir ==
    /\ project._srcDir = Unset
    /\ project' = GetSrcDir(project, objects)
    /\ UNCHANGED <<runVars, objects>>

\* project.pkgManager read while its field is empty
ReadPkgManager ==
    /\ project._pkgManager = Unset
    /\ project' = GetPkgManager(project, objects)
    /\ UNCHANGED <<runVars, objects>>

\* project.exports read while its field is empty
ReadExports ==
    /\ project._exports = Unset
    /\ project' = GetExports(project, objects)
    /\ UNCHANGED <<runVars, objects>>

\* project.imports read while its field is empty
ReadImports ==
    /\ project._imports = Unset
    /\ project' = GetImports(project, objects)
    /\ UNCHANGED <<runVars, objects>>

\* project.webpackConfiguration read while its field is empty
ReadWebpackConfiguration ==
    /\ project._webpackConfiguration = Unset
    /\ project' = GetWebpackConfiguration(project, objects)
    /\ UNCHANGED <<runVars, objects>>

\* project.versionsInfo read while its field is empty
ReadVersionsInfo ==
    /\ project._versionsInfo = Unset
    /\ project' = GetVersionsInfo(project, objects)
    /\ UNCHANGED <<runVars, objects>>

\* project.workDir read while its field is empty and a work directory is
\* configured
ReadWorkDir ==
    /\ project._workDir = Unset
    /\ project' = GetWorkDir(project, objects)
    /\ project' # project
    /\ UNCHANGED <<runVars, objects>>

\* a client that reloads the project and reads it
NextProject ==
    \/ Reload
    \/ ReadBuildDir
    \/ ReadSources
    \/ ReadSrcDir
    \/ ReadPkgManager
    \/ ReadExports
    \/ ReadImports
    \/ ReadWebpackConfiguration
    \/ ReadVersionsInfo
    \/ ReadWorkDir

\* a client that reloads the project and hands it program arguments
NextArgv ==
    \/ Reload
    \/ SetArgv

\* the state after new Project(projectDirPath): the constructor calls
\* loadFrom on the new object; the configuration modules are as their files
\* define them, and no build is running
InitProject ==
    /\ \E projectPath \in ProjectPaths :
          LET r == LoadFrom(NewProject, ModuleFiles, projectPath,
                            DefaultConfigFile)
          IN  project = r.project /\ objects = r.objects
    /\ clean = [p \in Pkgs |-> TRUE]
    /\ chain = [f \in AllFiles |-> <<>>]
    /\ unreadable = NoFault.unreadable
    /\ unwritable = NoFault.unwritable
    /\ disk = EmptyDisk
    /\ RunIdle

SpecProject == InitProject /\ [][NextProject]_vars

SpecArgv == InitProject /\ [][NextArgv]_vars

\* ------------------------------------------------------------------- C22

\* the object with every field a getter caches in emptied: what its getters
\* return is derived from the configuration and package.json loaded last
Uncached(pr) ==
    [pr EXCEPT !._buildDir = Unset, !._sources = Unset, !._srcDir = Unset,
               !._pkgManager = Unset, !._exports = Unset, !._imports = Unset,
               !._webpackConfiguration = Unset, !._versionsInfo = Unset,
               !._workDir = Unset]

\* C22: whatever getter reads and loadFrom calls came before, every caching
\* getter (buildDir, sources, srcDir, pkgManager, exports, imports,
\* webpackConfiguration, versionsInfo, workDir) returns the value derived
\* from the configuration and package.json that the last loadFrom loaded,
\* never one cached from an earlier load.
C22_GettersFollowLastLoad ==
    LET now == project
        new == Uncached(project)
    IN  /\ GetBuildDir(now, objects)._buildDir
              = GetBuildDir(new, objects)._buildDir
        /\ GetSources(now, objects)._sources
              = GetSources(new, objects)._sources
        /\ GetSrcDir(now, objects)._srcDir
              = GetSrcDir(new, objects)._srcDir
        /\ GetPkgManager(now, objects)._pkgManager
              = GetPkgManager(new, objects)._pkgManager
        /\ GetExports(now, objects)._exports
              = GetExports(new, objects)._exports
        /\ GetImports(now, objects)._imports
              = GetImports(new, objects)._imports
        /\ GetWebpackConfiguration(now, objects)._webpackConfiguration
              = GetWebpackConfiguration(new, objects)._webpackConfiguration
        /\ GetVersionsInfo(now, objects)._versionsInfo
              = GetVersionsInfo(new, objects)._versionsInfo
        /\ GetWorkDir(now, objects)._workDir
              = GetWorkDir(new, objects)._workDir

\* ------------------------------------------------------------------- C23

\* the option is set to true in the configuration object
HasOption(object, key) == key \in DOMAIN object /\ object[key] = TRUE

\* C23: after the argv setter returns, the configuration the project now
\* has (the one npmbundlerrc returns) has 'create-jar' set to true when
\* argv['create-jar'] is true and 'dump-report' set to true when
\* argv['dump-report'] is true, also when argv.config made the setter load
\* the configuration again.
C23_ArgvOptionsReachConfiguration ==
    [][\A argv \in Argvs :
          (/\ project' = SetArgvTo(project, objects, argv).project
           /\ objects' = SetArgvTo(project, objects, argv).objects)
          => /\ argv.createJar =>
                   HasOption(Npmbundlerrc(project', objects'), "create-jar")
             /\ argv.dumpReport =>
                   HasOption(Npmbundlerrc(project', objects'), "dump-report")
      ]_vars

====
